---- MODULE Spec2Model ----
(***************************************************************************)
(* The screen state machine of tui-am-i (src/src/state.rs): the Screen     *)
(* driver, its two State implementations SelectScreen and CharacterScreen, *)
(* and the terminal they draw on.                                          *)
(*                                                                         *)
(* The terminal is modelled as a grid of TermRows lines with a cursor.     *)
(* It is taller than the longest list the model renders, so a render never *)
(* scrolls.  Every crossterm / tui call that returns a Result may fail;    *)
(* the failures are chosen by the actions.                                 *)
(***************************************************************************)
EXTENDS Integers, Sequences, FiniteSets, TLC

VARIABLES
    state,          \* Screen.state : Option<Box<dyn State>>
    stdout,         \* Screen.stdout: the terminal behind the handle
    pc,             \* where the caller / handle_input's loop stands
    event,          \* the Event returned by the last read()
    current_row,    \* SelectScreen::handle_keyboard_event's local current_row
    outcome,        \* the Result<HandleKeyboardInput> of the last handler call
    result,         \* the Result<()> a Screen method returned to its caller
    rendered,       \* the last Screen::display_screen call returned Ok(())
    constructed     \* the State value as it was constructed, before any event

vars == <<state, stdout, pc, event, current_row, outcome, result, rendered, constructed>>

---------------------------------------------------------------------------
(* Bounds *)

\* Longest saved_characters list passed to Screen::new.
MaxChars == 2

\* Width of the terminal in columns.
TermCols == 40

\* Height of the terminal in lines: room for every list line, the
\* "New Character Sheet.." line and two lines more.
TermRows == MaxChars + 3

Rows == 0 .. (TermRows - 1)

Min(a, b) == IF a < b THEN a ELSE b
Max(a, b) == IF a > b THEN a ELSE b

---------------------------------------------------------------------------
(* Values *)

\* Option<T>
None == << >>
Some(x) == << x >>
IsSome(o) == Len(o) = 1
Unwrap(o) == o[1]

\* Result<T>
Ok(v) == [tag |-> "Ok", val |-> v]
Err(e) == [tag |-> "Err", val |-> [kind |-> e]]
Panic(e) == [tag |-> "Panic", val |-> [kind |-> e]]
Unit == [kind |-> "Unit"]
NoResult == [tag |-> "NoResult", val |-> [kind |-> "NoResult"]]

\* crate::character::Character: the fields state.rs reads.
Character(n, c) == [name |-> n, class |-> c]

\* Character::new(): the freshly constructed default character.
Character_new == Character("", "")

Characters == { Character_new, Character("Aria", "Ranger"), Character("Borin", "Cleric") }

RECURSIVE SeqsUpTo(_, _)
SeqsUpTo(S, n) ==
    IF n = 0 THEN { << >> }
    ELSE LET shorter == SeqsUpTo(S, n - 1)
         IN  shorter \cup { Append(s, x) : s \in { t \in shorter : Len(t) = n - 1 }, x \in S }

\* enum HandleKeyboardInput
ChangeState(s) == [kind |-> "ChangeState", state |-> s]
Input == [kind |-> "Input"]
Exit == [kind |-> "Exit"]

\* struct SelectScreen, struct CharacterScreen
SelectScreen(chars) == [kind |-> "SelectScreen", saved_characters |-> chars]
CharacterScreen(c) == [kind |-> "CharacterScreen", current_character |-> c]

\* crossterm::event::Event and KeyCode, as far as the handlers tell them apart.
KeyCodes == { "Esc", "Enter", "Char_k", "Char_j", "Char_K", "Char_J", "Char_x", "Up" }
Key(code) == [kind |-> "Key", code |-> code]
NoEvent == [kind |-> "NoEvent", code |-> "none"]
Events == { Key(c) : c \in KeyCodes } \cup { [kind |-> "Resize", code |-> "none"], [kind |-> "Mouse", code |-> "none"] }

---------------------------------------------------------------------------
(* The terminal behind Stdout *)

Plain(t) == [text |-> t, bold |-> FALSE]
Bold(t) == [text |-> t, bold |-> TRUE]

BlankLines == [r \in Rows |-> << >>]
StaleLines == [r \in Rows |-> << Plain("stale") >>]

\* Clear(All): every line blank, the cursor stays.
ClearAll_noop(t) == t
ClearAll(t) == [t EXCEPT !.lines = BlankLines]

\* cursor::MoveTo(col, row)
MoveTo(t, c, r) == [t EXCEPT !.row = Min(r, TermRows - 1), !.col = Min(c, TermCols - 1)]

\* cursor::MoveToPreviousLine(n): up n lines, stopping at the top line, column 0.
MoveToPreviousLine(t, n) == [t EXCEPT !.row = Max(t.row - n, 0), !.col = 0]

\* cursor::MoveToNextLine(n): down n lines, stopping at the bottom line, column 0.
MoveToNextLine(t, n) == [t EXCEPT !.row = Min(t.row + n, TermRows - 1), !.col = 0]

\* write!(stdout, text): the text lands at the cursor, on a line written
\* left to right since the last clear.
WriteSpan(t, span) ==
    [t EXCEPT !.lines[t.row] = Append(@, span),
              !.col = Min(t.col + Len(span.text), TermCols - 1)]

\* "\r\n": column 0 of the next line; at the bottom line the content scrolls up.
NewLine(t) ==
    IF t.row < TermRows - 1
    THEN [t EXCEPT !.row = t.row + 1, !.col = 0]
    ELSE [t EXCEPT !.lines = [r \in Rows |-> IF r < TermRows - 1 THEN t.lines[r + 1] ELSE << >>],
                   !.col = 0]

---------------------------------------------------------------------------
(* impl State for SelectScreen *)

IoError == "IoError"
NoCharacterError == "No Character"

\* "{} {}": the name, one space, the class.
FormatCharacter_swapped(character) == character.class \o " " \o character.name
FormatCharacter(character) == character.name \o " " \o character.class

\* The for loop of display_screen: one line per character, in list order.
\* `ok` is the number of iterations whose write and flush succeed.
RECURSIVE WriteSavedCharacters(_, _, _)
WriteSavedCharacters(t, characters, ok) ==
    IF characters = << >> \/ ok = 0
    THEN t
    ELSE WriteSavedCharacters(NewLine(WriteSpan(t, Plain(FormatCharacter(Head(characters))))),
                              Tail(characters), ok - 1)

\* Number of fallible steps of SelectScreen::display_screen: the clear, one
\* per character, the last line, the final MoveTo.
SelectScreen_steps(self) == Len(self.saved_characters) + 3

\* SelectScreen::display_screen.  `ok` is the number of steps that succeed
\* before the first I/O error; SelectScreen_steps(self) means no error.
SelectScreen_display_screen(self, t, ok) ==
    LET N == Len(self.saved_characters)
        t0 == MoveTo(ClearAll(t), 0, 0)
        t1 == WriteSavedCharacters(t0, self.saved_characters, Min(ok - 1, N))
        t2 == WriteSpan(t1, Plain("New Character Sheet.."))
        t3 == MoveTo(t2, 0, 0)
    IN  CASE ok = 0 -> [stdout |-> t, ret |-> Err(IoError)]
          [] ok \in 1 .. (N + 1) -> [stdout |-> t1, ret |-> Err(IoError)]
          [] ok = N + 2 -> [stdout |-> t2, ret |-> Err(IoError)]
          [] OTHER -> [stdout |-> t3, ret |-> Ok(Unit)]

\* KeyCode::Esc
KeyEsc_input(t) == [stdout |-> t, ret |-> Ok(Input)]
KeyEsc(t) == [stdout |-> t, ret |-> Ok(Exit)]

\* KeyCode::Char('k')
KeyCharK(t, execute_ok) ==
    IF execute_ok
    THEN [stdout |-> MoveToPreviousLine(t, 1), ret |-> Ok(Input)]
    ELSE [stdout |-> t, ret |-> Err(IoError)]

\* KeyCode::Char('j')
KeyCharJ_unguarded(t, row, all_characters_length, execute_ok) ==
    IF execute_ok
    THEN [stdout |-> MoveToNextLine(t, 1), ret |-> Ok(Input)]
    ELSE [stdout |-> t, ret |-> Err(IoError)]
KeyCharJ_short(t, row, all_characters_length, execute_ok) ==
    IF row + 1 < all_characters_length
    THEN IF execute_ok
         THEN [stdout |-> MoveToNextLine(t, 1), ret |-> Ok(Input)]
         ELSE [stdout |-> t, ret |-> Err(IoError)]
    ELSE [stdout |-> t, ret |-> Ok(Input)]
KeyCharJ(t, row, all_characters_length, execute_ok) ==
    IF row # all_characters_length
    THEN IF execute_ok
         THEN [stdout |-> MoveToNextLine(t, 1), ret |-> Ok(Input)]
         ELSE [stdout |-> t, ret |-> Err(IoError)]
    ELSE [stdout |-> t, ret |-> Ok(Input)]

\* KeyCode::Enter.  all_characters[current_row] is 0-based; past the end
\* of the list the index panics.
KeyEnter_first(t, all_characters, row, all_characters_length) ==
    IF row = all_characters_length
    THEN [stdout |-> t, ret |-> Ok(ChangeState(CharacterScreen(Some(Character_new))))]
    ELSE IF row < all_characters_length
         THEN [stdout |-> t, ret |-> Ok(ChangeState(CharacterScreen(Some(all_characters[1]))))]
         ELSE [stdout |-> t, ret |-> Panic("index out of bounds")]
KeyEnter_short(t, all_characters, row, all_characters_length) ==
    IF row + 1 = all_characters_length
    THEN [stdout |-> t, ret |-> Ok(ChangeState(CharacterScreen(Some(Character_new))))]
    ELSE IF row < all_characters_length
         THEN [stdout |-> t, ret |-> Ok(ChangeState(CharacterScreen(Some(all_characters[row + 1]))))]
         ELSE [stdout |-> t, ret |-> Panic("index out of bounds")]
KeyEnter_none(t, all_characters, row, all_characters_length) ==
    IF row = all_characters_length
    THEN [stdout |-> t, ret |-> Ok(ChangeState(CharacterScreen(None)))]
    ELSE IF row < all_characters_length
         THEN [stdout |-> t, ret |-> Ok(ChangeState(CharacterScreen(Some(all_characters[row + 1]))))]
         ELSE [stdout |-> t, ret |-> Panic("index out of bounds")]
KeyEnter(t, all_characters, row, all_characters_length) ==
    IF row = all_characters_length
    THEN [stdout |-> t, ret |-> Ok(ChangeState(CharacterScreen(Some(Character_new))))]
    ELSE IF row < all_characters_length
         THEN [stdout |-> t, ret |-> Ok(ChangeState(CharacterScreen(Some(all_characters[row + 1]))))]
         ELSE [stdout |-> t, ret |-> Panic("index out of bounds")]

\* SelectScreen::handle_keyboard_event.  io.position and io.execute say
\* whether cursor::position() and execute!() succeed.
SelectScreen_handle_keyboard_event_nocase(self, t, ev, io) ==
    IF ~io.position
    THEN [stdout |-> t, ret |-> Err(IoError)]
    ELSE LET row == t.row
             all_characters == self.saved_characters
             all_characters_length == Len(all_characters)
         IN  CASE ev.code = "Esc" -> KeyEsc(t)
               [] ev.code \in { "Char_k", "Char_K" } -> KeyCharK(t, io.execute)
               [] ev.code \in { "Char_j", "Char_J" } -> KeyCharJ(t, row, all_characters_length, io.execute)
               [] ev.code = "Enter" -> KeyEnter(t, all_characters, row, all_characters_length)
               [] OTHER -> [stdout |-> t, ret |-> Ok(Input)]
SelectScreen_handle_keyboard_event(self, t, ev, io) ==
    IF ~io.position
    THEN [stdout |-> t, ret |-> Err(IoError)]
    ELSE LET row == t.row
             all_characters == self.saved_characters
             all_characters_length == Len(all_characters)
         IN  CASE ev.code = "Esc" -> KeyEsc(t)
               [] ev.code = "Char_k" -> KeyCharK(t, io.execute)
               [] ev.code = "Char_j" -> KeyCharJ(t, row, all_characters_length, io.execute)
               [] ev.code = "Enter" -> KeyEnter(t, all_characters, row, all_characters_length)
               [] OTHER -> [stdout |-> t, ret |-> Ok(Input)]

---------------------------------------------------------------------------
(* impl State for CharacterScreen *)

\* The frame terminal.draw puts on the screen: a bordered block titled
\* with the name, around the paragraph "Name: .." / "Class: ..".
SheetLines(character) ==
    [r \in Rows |->
        CASE r = 0 -> << Plain("+"), Plain(character.name), Plain("-+") >>
          [] r = TermRows - 1 -> << Plain("+-+") >>
          [] r = 1 -> << Plain("|"), Bold("Name: "), Plain(character.name), Plain("|") >>
          [] r = 2 -> << Plain("|"), Bold("Class: "), Plain(character.class), Plain("|") >>
          [] OTHER -> << Plain("|"), Plain("|") >>]

\* Terminal::draw: writes the cells of the frame that differ from a blank
\* screen, so what a line held before stays beside them; the cursor is
\* left behind the last cell written, the bottom right corner.
Draw(t, character) ==
    [t EXCEPT !.lines = [r \in Rows |-> t.lines[r] \o SheetLines(character)[r]],
              !.row = TermRows - 1, !.col = TermCols - 1]

\* Number of fallible steps of CharacterScreen::display_screen after the
\* text is built: Terminal::new, clear, set_cursor, draw.
CharacterScreen_steps == 4

\* CharacterScreen::display_screen.  The text is built first, and
\* .context("No Character")? returns before anything touches the terminal.
CharacterScreen_display_screen_clear_first(self, t, ok) ==
    IF ~IsSome(self.current_character)
    THEN [stdout |-> MoveTo(ClearAll(t), 0, 0), ret |-> Err(NoCharacterError)]
    ELSE [stdout |-> Draw(MoveTo(ClearAll(t), 0, 0), Unwrap(self.current_character)), ret |-> Ok(Unit)]
CharacterScreen_display_screen(self, t, ok) ==
    IF ~IsSome(self.current_character)
    THEN [stdout |-> t, ret |-> Err(NoCharacterError)]
    ELSE LET t1 == ClearAll(t)
             t2 == MoveTo(t1, 0, 0)
             t3 == Draw(t2, Unwrap(self.current_character))
         IN  CASE ok \in 0 .. 1 -> [stdout |-> t, ret |-> Err(IoError)]
               [] ok = 2 -> [stdout |-> t1, ret |-> Err(IoError)]
               [] ok = 3 -> [stdout |-> t2, ret |-> Err(IoError)]
               [] OTHER -> [stdout |-> t3, ret |-> Ok(Unit)]

\* CharacterScreen::handle_keyboard_event
CharacterScreen_handle_keyboard_event_esc(self, t, ev, io) ==
    [stdout |-> t, ret |-> IF ev.code = "Esc" THEN Ok(Exit) ELSE Ok(Input)]
CharacterScreen_handle_keyboard_event(self, t, ev, io) ==
    [stdout |-> t, ret |-> Ok(Input)]

---------------------------------------------------------------------------
(* trait State: dynamic dispatch on the boxed state *)

State_steps(self) ==
    IF self.kind = "SelectScreen" THEN SelectScreen_steps(self) ELSE CharacterScreen_steps

State_display_screen(self, t, ok) ==
    IF self.kind = "SelectScreen"
    THEN SelectScreen_display_screen(self, t, ok)
    ELSE CharacterScreen_display_screen(self, t, ok)

State_handle_keyboard_event(self, t, ev, io) ==
    IF self.kind = "SelectScreen"
    THEN SelectScreen_handle_keyboard_event(self, t, ev, io)
    ELSE CharacterScreen_handle_keyboard_event(self, t, ev, io)

---------------------------------------------------------------------------
(* impl Screen *)

\* Screen::new
Screen_new_empty(saved_characters) == Some(SelectScreen(<< >>))
Screen_new(saved_characters) == Some(SelectScreen(saved_characters))

\* Screen::display_screen
Screen_display_screen(st, t, ok) ==
    IF IsSome(st)
    THEN State_display_screen(Unwrap(st), t, ok)
    ELSE [stdout |-> t, ret |-> Ok(Unit)]

\* The match on the handler's value in handle_input: both arms are empty,
\* so the state field is what it was, whatever the handler returned.
handle_input_match_take(st, hk) == IF hk.kind = "ChangeState" THEN None ELSE st
handle_input_match(st, hk) == st

Terminals == { [lines |-> l, row |-> r, col |-> 0] : l \in { BlankLines, StaleLines }, r \in Rows }

States ==
    { SelectScreen(cs) : cs \in SeqsUpTo(Characters, MaxChars) }
        \cup { CharacterScreen(c) : c \in { None } \cup { Some(ch) : ch \in Characters } }

InitRest ==
    /\ stdout \in Terminals
    /\ pc = "caller"
    /\ event = NoEvent
    /\ current_row = 0
    /\ outcome = NoResult
    /\ result = NoResult
    /\ rendered = FALSE

\* The Screen as Screen::new builds it, on a terminal left in any condition.
Init ==
    /\ \E saved_characters \in SeqsUpTo(Characters, MaxChars) :
          /\ state = Screen_new(saved_characters)
          /\ constructed = SelectScreen(saved_characters)
    /\ InitRest

\* A Screen holding any State value: the State implementations on their own.
\* A SelectScreen is built by Screen::new, a CharacterScreen directly.
InitAnyState ==
    /\ \E s \in States :
          /\ state = IF s.kind = "SelectScreen" THEN Screen_new(s.saved_characters) ELSE Some(s)
          /\ constructed = s
    /\ InitRest

\* The caller calls Screen::display_screen.
CallDisplayScreen ==
    /\ pc = "caller"
    /\ \E ok \in 0 .. (IF IsSome(state) THEN State_steps(Unwrap(state)) ELSE 0) :
          LET r == Screen_display_screen(state, stdout, ok)
          IN  /\ stdout' = r.stdout
              /\ result' = r.ret
              /\ rendered' = (r.ret.tag = "Ok")
              /\ pc' = IF r.ret.tag = "Ok" THEN "caller" ELSE "returned"
    /\ UNCHANGED <<state, event, current_row, outcome, constructed>>

\* The caller calls Screen::handle_input: the loop starts.
CallHandleInput ==
    /\ pc = "caller"
    /\ pc' = "flush"
    /\ UNCHANGED <<state, stdout, event, current_row, outcome, result, rendered, constructed>>

\* self.stdout.flush()?
Flush ==
    /\ pc = "flush"
    /\ \E ok \in BOOLEAN :
          IF ok
          THEN pc' = "read" /\ result' = result
          ELSE pc' = "returned" /\ result' = Err(IoError)
    /\ UNCHANGED <<state, stdout, event, current_row, outcome, rendered, constructed>>

\* read()?
ReadEvent ==
    /\ pc = "read"
    /\ \E ok \in BOOLEAN :
          IF ok
          THEN /\ \E e \in Events : event' = e
               /\ pc' = "match"
               /\ result' = result
          ELSE /\ event' = event
               /\ pc' = "returned"
               /\ result' = Err(IoError)
    /\ UNCHANGED <<state, stdout, current_row, outcome, rendered, constructed>>

\* Event::Key(event): the active state's handler runs.
HandleKeyEvent ==
    /\ pc = "match"
    /\ event.kind = "Key"
    /\ IF IsSome(state)
       THEN \E io \in [position : BOOLEAN, execute : BOOLEAN] :
               LET r == State_handle_keyboard_event(Unwrap(state), stdout, event, io)
               IN  /\ stdout' = r.stdout
                   /\ outcome' = r.ret
                   /\ current_row' = IF Unwrap(state).kind = "SelectScreen" /\ io.position
                                     THEN stdout.row
                                     ELSE current_row
                   /\ pc' = "handled"
       ELSE /\ pc' = "flush"
            /\ UNCHANGED <<stdout, outcome, current_row>>
    /\ UNCHANGED <<state, event, result, rendered, constructed>>

\* The ? on the handler's Result, then the match on its value.
ApplyOutcome_swallow ==
    /\ pc = "handled"
    /\ CASE outcome.tag = "Panic" ->
              /\ state' = state
              /\ pc' = "panicked"
         [] OTHER ->
              /\ state' = state
              /\ pc' = "flush"
    /\ UNCHANGED <<stdout, event, current_row, outcome, result, rendered, constructed>>
ApplyOutcome_break ==
    /\ pc = "handled"
    /\ CASE outcome.tag = "Ok" ->
              /\ state' = handle_input_match(state, outcome.val)
              /\ pc' = "returned"
              /\ result' = Ok(Unit)
         [] outcome.tag = "Err" ->
              /\ state' = state
              /\ pc' = "returned"
              /\ result' = outcome
         [] OTHER ->
              /\ state' = state
              /\ pc' = "panicked"
              /\ result' = result
    /\ UNCHANGED <<stdout, event, current_row, outcome, rendered, constructed>>
ApplyOutcome ==
    /\ pc = "handled"
    /\ CASE outcome.tag = "Ok" ->
              /\ state' = handle_input_match(state, outcome.val)
              /\ pc' = "flush"
              /\ result' = result
         [] outcome.tag = "Err" ->
              /\ state' = state
              /\ pc' = "returned"
              /\ result' = outcome
         [] OTHER ->
              /\ state' = state
              /\ pc' = "panicked"
              /\ result' = result
    /\ UNCHANGED <<stdout, event, current_row, outcome, rendered, constructed>>

\* Any other event: the `_ => {}` arm.
IgnoreEvent_forward ==
    /\ pc = "match"
    /\ event.kind # "Key"
    /\ IsSome(state)
    /\ LET r == State_handle_keyboard_event(Unwrap(state), stdout, event, [position |-> TRUE, execute |-> TRUE])
       IN  /\ stdout' = r.stdout
           /\ outcome' = r.ret
    /\ pc' = "handled"
    /\ UNCHANGED <<state, event, current_row, result, rendered, constructed>>
IgnoreEvent ==
    /\ pc = "match"
    /\ event.kind # "Key"
    /\ pc' = "flush"
    /\ UNCHANGED <<state, stdout, event, current_row, outcome, result, rendered, constructed>>

Next ==
    \/ CallDisplayScreen
    \/ CallHandleInput
    \/ Flush
    \/ ReadEvent
    \/ HandleKeyEvent
    \/ ApplyOutcome
    \/ IgnoreEvent

Spec == Init /\ [][Next]_vars

SpecAnyState == InitAnyState /\ [][Next]_vars

---------------------------------------------------------------------------
(* Properties *)

SelectActive == IsSome(state) /\ Unwrap(state).kind = "SelectScreen"
CharacterActive == IsSome(state) /\ Unwrap(state).kind = "CharacterScreen"
saved_characters == Unwrap(state).saved_characters
N == Len(saved_characters)
InLoop == pc \in { "flush", "read", "match", "handled" }

\* The handler has just returned to handle_input, which has not yet looked
\* at the value; current_row is the row the handler read.
Handled(code) == pc = "handled" /\ event = Key(code) /\ outcome.tag # "Err"

\* C1: once the active state's handler has returned Exit and handle_input
\* has taken the value, handle_input has returned Ok(()) to its caller.
C1_ExitEndsLoop ==
    (SelectActive /\ rendered /\ outcome = Ok(Exit) /\ pc # "handled") => (pc = "returned" /\ result = Ok(Unit))

\* C2: once the handler has returned ChangeState(new) and handle_input has
\* taken the value, the Screen's state is `new` and the terminal shows the
\* render of `new` before the next event is read or dispatched.
C2_TransitionReplacesAndRenders ==
    (rendered /\ outcome.tag = "Ok" /\ outcome.val.kind = "ChangeState" /\ pc \in { "flush", "read", "match" })
        => /\ state = Some(outcome.val.state)
           /\ stdout.lines = SheetLines(Unwrap(outcome.val.state.current_character))

\* C3: with SelectScreen active and rendered, the cursor row stays within
\* 0..N under any keys; 'k' at row 0 and 'j' at row N leave the row as it is.
C3_CursorRowInRange ==
    /\ (SelectActive /\ rendered) => stdout.row \in 0 .. N
    /\ (SelectActive /\ Handled("Char_k") /\ current_row = 0) => stdout.row = 0
    /\ (SelectActive /\ Handled("Char_j") /\ current_row = N) => stdout.row = N

C3_Witness ==
    /\ SelectActive /\ rendered /\ N = MaxChars
    /\ Handled("Char_j") /\ current_row = N /\ stdout.row = N

\* C4: Enter at row r < N returns ChangeState to a CharacterScreen holding
\* saved_characters[r], the character the render put on line r.
C4_EnterSelectsRow ==
    (SelectActive /\ Handled("Enter") /\ current_row < N)
        => /\ outcome = Ok(ChangeState(CharacterScreen(Some(saved_characters[current_row + 1]))))
           /\ rendered =>
                 LET c == Unwrap(outcome.val.state.current_character)
                 IN  stdout.lines[current_row] = << Plain(c.name \o " " \o c.class) >>

C4_Witness ==
    /\ SelectActive /\ rendered /\ N = 2 /\ saved_characters[1] # saved_characters[2]
    /\ Handled("Enter") /\ current_row = 1
    /\ outcome.tag = "Ok"

C6_EscExits ==
    [][(SelectActive /\ pc = "match" /\ event = Key("Esc"))
          => /\ stdout' = stdout
             /\ state' = state
             /\ outcome'.tag # "Err" => outcome' = Ok(Exit)]_vars

C6_Witness ==
    /\ SelectActive /\ rendered /\ N >= 1
    /\ Handled("Esc") /\ current_row = N
    /\ outcome = Ok(Exit)

\* C7: the Screen's state field always holds exactly one State, also right
\* after handle_input has taken a ChangeState value.
C7_AlwaysOneState ==
    /\ Len(state) = 1
    /\ Unwrap(state).kind \in { "SelectScreen", "CharacterScreen" }

C7_Witness ==
    /\ pc = "flush"
    /\ outcome.tag = "Ok" /\ outcome.val.kind = "ChangeState"
    /\ Len(state) = 1

\* C8: with CharacterScreen active, the handler answers every key with
\* Input, and no step of the loop changes the state or the terminal.
C8_SheetDiscardsKeys ==
    [][(CharacterActive /\ InLoop)
          => /\ state' = state
             /\ stdout' = stdout
             /\ (pc = "match" /\ event.kind = "Key") => outcome' = Ok(Input)]_vars

C8_Witness ==
    /\ CharacterActive
    /\ pc = "handled" /\ event = Key("Esc")
    /\ outcome = Ok(Input)

\* C9: display_screen on a CharacterScreen without a character returns the
\* "No Character" error with the terminal untouched, and the error is what
\* Screen::display_screen returns to its caller.
C9_MissingCharacterError ==
    [][(CharacterActive /\ ~IsSome(Unwrap(state).current_character) /\ pc = "caller" /\ pc' # "flush")
          => /\ result' = Err(NoCharacterError)
             /\ stdout' = stdout
             /\ pc' = "returned"]_vars

C9_Witness ==
    /\ CharacterActive /\ ~IsSome(Unwrap(state).current_character)
    /\ pc = "returned" /\ result = Err(NoCharacterError)
    /\ stdout.lines = StaleLines /\ stdout.row > 0

\* C10: a rendered SelectScreen shows N+1 lines: line i is the name and
\* class of the i-th saved character, line N is "New Character Sheet..",
\* and every line below is blank.
C10_SelectRendersNPlusOneLines ==
    (SelectActive /\ rendered)
        => /\ \A i \in 0 .. (N - 1) :
                 stdout.lines[i] = << Plain(saved_characters[i + 1].name \o " " \o saved_characters[i + 1].class) >>
           /\ stdout.lines[N] = << Plain("New Character Sheet..") >>
           /\ \A i \in (N + 1) .. (TermRows - 1) : stdout.lines[i] = << >>

C10_Witness ==
    /\ SelectActive /\ rendered /\ pc = "caller"
    /\ N = 2 /\ saved_characters[1] # saved_characters[2]
    /\ stdout.lines[2] = << Plain("New Character Sheet..") >>

\* C11: a successful render of either State leaves the terminal, content
\* and cursor, exactly as the same render leaves a blank terminal, whatever
\* the terminal held before (an earlier frame, stale text, any cursor row).
BlankTerminal == [lines |-> BlankLines, row |-> 0, col |-> 0]

C11_RenderIdempotent ==
    (IsSome(state) /\ rendered /\ pc = "caller")
        => stdout = State_display_screen(Unwrap(state), BlankTerminal, State_steps(Unwrap(state))).stdout

C11_Witness ==
    /\ CharacterActive /\ rendered /\ pc = "caller"
    /\ stdout.lines[1] = << Plain("|"), Bold("Name: "), Plain("Aria"), Plain("|") >>

\* C12: an I/O error of flush, of read or of the handler ends handle_input
\* at once with that error: after it nothing is retried, read or dispatched.
C12_IoErrorAborts ==
    /\ [](result.tag = "Err" => pc = "returned")
    /\ []((outcome.tag = "Err" /\ pc # "handled") => (pc = "returned" /\ result = outcome))
    /\ [][pc = "returned" => UNCHANGED vars]_vars

C12_Witness ==
    /\ SelectActive /\ rendered
    /\ pc = "returned" /\ event = Key("Char_k")
    /\ outcome = Err(IoError) /\ result = outcome

\* C13: 'j' at a row r < N moves the cursor to r+1 and 'k' at a row r > 0
\* moves it to r-1, each returning Input; so row N can be reached from N-1.
C13_JKMoveOneRow ==
    /\ (SelectActive /\ Handled("Char_j") /\ current_row < N)
          => (stdout.row = current_row + 1 /\ outcome = Ok(Input))
    /\ (SelectActive /\ Handled("Char_k") /\ current_row > 0)
          => (stdout.row = current_row - 1 /\ outcome = Ok(Input))

C13_Witness ==
    /\ SelectActive /\ rendered /\ N = MaxChars
    /\ Handled("Char_j") /\ current_row = N - 1 /\ stdout.row = N

\* C14: whatever keys were handled, the active SelectScreen's list is the
\* list given to Screen::new, contents and order, and an active
\* CharacterScreen holds the character it was constructed with.
C14_PayloadUnchanged ==
    /\ (SelectActive /\ constructed.kind = "SelectScreen")
          => saved_characters = constructed.saved_characters
    /\ (CharacterActive /\ constructed.kind = "CharacterScreen")
          => Unwrap(state).current_character = constructed.current_character

C14_Witness ==
    /\ SelectActive /\ N = 2 /\ saved_characters[1] # saved_characters[2]
    /\ saved_characters = constructed.saved_characters
    /\ pc = "flush" /\ event = Key("Char_j") /\ outcome = Ok(Input)

\* C15: after a successful render of either State the cursor is on row 0.
C15_RenderEndsAtHome ==
    (IsSome(state) /\ rendered /\ pc = "caller") => stdout.row = 0

\* C16: when the handler has returned Input, handle_input keeps the state,
\* renders nothing and goes back to the top of the loop for the next event.
C16_ContinueKeepsState ==
    [][(pc = "handled" /\ outcome = Ok(Input))
          => /\ state' = state
             /\ stdout' = stdout
             /\ rendered' = rendered
             /\ pc' = "flush"]_vars

C16_Witness ==
    /\ SelectActive /\ rendered
    /\ pc = "read" /\ event = Key("Char_x") /\ outcome = Ok(Input)

\* C17: the SelectScreen handler answers every key other than Esc, 'k',
\* 'j' and Enter, 'K' and 'J' among them, with Input, the cursor row kept.
C17_OtherKeysDoNothing ==
    (SelectActive /\ pc = "handled" /\ event.kind = "Key" /\ outcome.tag # "Err"
        /\ event.code \notin { "Esc", "Char_k", "Char_j", "Enter" })
        => (outcome = Ok(Input) /\ stdout.row = current_row)

C17_Witness ==
    /\ SelectActive /\ rendered /\ N >= 1
    /\ Handled("Char_J") /\ current_row = 0 /\ stdout.row = 0
    /\ outcome = Ok(Input)

\* C18: from Screen::new, every CharacterScreen a handler constructs, and
\* every one that is active, holds a character, and no Screen method
\* returns the "No Character" error.
C18_SheetAlwaysHoldsCharacter ==
    /\ result # Err(NoCharacterError)
    /\ CharacterActive => IsSome(Unwrap(state).current_character)
    /\ (outcome.tag = "Ok" /\ outcome.val.kind = "ChangeState")
          => /\ outcome.val.state.kind = "CharacterScreen"
             /\ IsSome(outcome.val.state.current_character)

C18_Witness ==
    /\ SelectActive /\ rendered /\ N = 0
    /\ Handled("Enter") /\ current_row = 0
    /\ outcome.tag = "Ok" /\ outcome.val.kind = "ChangeState"
    /\ IsSome(outcome.val.state.current_character)

\* C19: handle_input returns Ok(()) only after an Esc handled with the
\* SelectScreen active; with a CharacterScreen active no step makes another
\* state active or lets handle_input return Ok(()).
C19_OnlyEscEndsLoop ==
    /\ []((pc = "returned" /\ result.tag = "Ok")
             => (SelectActive /\ event = Key("Esc") /\ outcome = Ok(Exit)))
    /\ [][CharacterActive => (CharacterActive' /\ ~(pc' = "returned" /\ result'.tag = "Ok"))]_vars

C19_Witness ==
    /\ CharacterActive
    /\ pc = "read" /\ event = Key("Esc") /\ outcome = Ok(Input)

\* C20: an event that is no key event is not handed to the handler: the
\* state, the terminal, the handler's last value and row stay, and the loop
\* goes on.
C20_NonKeyIgnored ==
    [][(pc = "match" /\ event.kind # "Key")
          => /\ state' = state
             /\ stdout' = stdout
             /\ outcome' = outcome
             /\ current_row' = current_row
             /\ pc' = "flush"]_vars

C20_Witness ==
    /\ SelectActive /\ rendered
    /\ pc = "flush" /\ event.kind = "Resize"
    /\ stdout.row = 1 /\ outcome = Ok(Input)

====
